---------------------------- MODULE Spec2Model ----------------------------
(***************************************************************************)
(* Model of xarray-units: unit extraction (utils.units_of), the quantity   *)
(* functions (quantity.set / unset / to / apply / apply_any) and the       *)
(* unit-aware binary operator dispatcher (operator.take).                  *)
(*                                                                         *)
(* Numbers are exact rationals <<n, d>> (d > 0, lowest terms).  A unit is  *)
(* a record of integer powers of the base symbols km, m and s; km and m    *)
(* share the dimension length and differ by the scale 10^3.                *)
(***************************************************************************)
EXTENDS Integers, Sequences, FiniteSets, TLC

\* ------------------------------------------------------------------ bounds

\* Longest one-dimensional array the caller passes in (arrays have MaxLen - 1
\* or MaxLen elements, so two arrays may or may not have the same shape).
MaxLen == 3

\* How many times the caller feeds a result back in as the next left operand.
MaxChain == 1

\* Largest numerator / denominator of a result the caller feeds back in.
MaxMagnitude == 10

\* Largest power of a base symbol in the units of a result the caller feeds
\* back in.
MaxPower == 2

\* ---------------------------------------------------------------- rationals

Abs(i) == IF i < 0 THEN -i ELSE i

RECURSIVE GCD(_, _)
GCD(a, b) == IF b = 0 THEN a ELSE GCD(b, a % b)

\* n / d in lowest terms with a positive denominator (d # 0).
Norm(n, d) ==
    LET s == IF d < 0 THEN -1 ELSE 1
        g == GCD(Abs(n), Abs(d))
    IN  <<(s * n) \div g, (s * d) \div g>>

R(i) == <<i, 1>>

RAdd(a, b) == Norm(a[1] * b[2] + b[1] * a[2], a[2] * b[2])
RSub(a, b) == Norm(a[1] * b[2] - b[1] * a[2], a[2] * b[2])
RMul(a, b) == Norm(a[1] * b[1], a[2] * b[2])
RDiv(a, b) == Norm(a[1] * b[2], a[2] * b[1])
RLt(a, b) == a[1] * b[2] < b[1] * a[2]
RLe(a, b) == a[1] * b[2] <= b[1] * a[2]
RFloor(a) == a[1] \div a[2]
RFloorDiv(a, b) == R(RFloor(RDiv(a, b)))
RMod(a, b) == RSub(a, RMul(b, RFloorDiv(a, b)))

RECURSIVE RPowNat(_, _)
RPowNat(a, k) == IF k = 0 THEN R(1) ELSE RMul(a, RPowNat(a, k - 1))

\* a ** p for an integer-valued exponent p (a # 0 when p < 0).
RPow(a, p) ==
    IF p[1] >= 0 THEN RPowNat(a, p[1]) ELSE RDiv(R(1), RPowNat(a, -p[1]))

RBool(b) == IF b THEN R(1) ELSE R(0)

\* -------------------------------------------------------------------- units

\* astropy Unit("1") / dimensionless_unscaled.
One == [km |-> 0, m |-> 0, s |-> 0]
Km == [km |-> 1, m |-> 0, s |-> 0]
Metre == [km |-> 0, m |-> 1, s |-> 0]
Second == [km |-> 0, m |-> 0, s |-> 1]

UnitMul(a, b) == [km |-> a.km + b.km, m |-> a.m + b.m, s |-> a.s + b.s]
UnitDiv(a, b) == [km |-> a.km - b.km, m |-> a.m - b.m, s |-> a.s - b.s]
UnitPow(a, k) == [km |-> a.km * k, m |-> a.m * k, s |-> a.s * k]

\* Physical dimension (powers of length and time) and decimal scale of a unit.
Dimension(u) == <<u.km + u.m, u.s>>
Scale(u) == 3 * u.km

\* UnitBase.is_equivalent without equivalencies.
Convertible(a, b) == Dimension(a) = Dimension(b)

\* A unit that converts to dimensionless_unscaled, and the unit that equals it.
IsDimensionless(u) == Dimension(u) = <<0, 0>>
IsUnity(u) == IsDimensionless(u) /\ Scale(u) = 0

RECURSIVE Pow10(_)
Pow10(k) == IF k = 0 THEN 1 ELSE 10 * Pow10(k - 1)

\* The factor that takes a magnitude in unit a to unit b (a, b convertible).
ConvFactor(a, b) ==
    LET e == Scale(a) - Scale(b)
    IN  IF e >= 0 THEN R(Pow10(e)) ELSE Norm(1, Pow10(-e))

\* astropy Unit(text): the unit a units text parses to.  "m, s" (several
\* units) and "invalid" (an unknown token) do not parse.
UnitTexts == {"km", "m", "s", "1", "m, s", "invalid"}

\* UnitBase.to_string("generic"): the text of a unit.  The dimensionless
\* unit is written as the empty text; a composite unit is written here with
\* the powers of all three symbols.
Generic(u) ==
    CASE u = Km -> "km"
      [] u = Metre -> "m"
      [] u = Second -> "s"
      [] u = One -> ""
      [] OTHER -> "km" \o ToString(u.km) \o " m" \o ToString(u.m)
                  \o " s" \o ToString(u.s)

\* The composite units within MaxPower, each with its text.
Composite ==
    {<<Generic(u), u>> :
        u \in [km : -MaxPower..MaxPower, m : -MaxPower..MaxPower,
               s : -MaxPower..MaxPower] \ {One, Km, Metre, Second}}

Unit(text) ==
    CASE text = "km" -> [st |-> "ok", u |-> Km]
      [] text = "m" -> [st |-> "ok", u |-> Metre]
      [] text = "s" -> [st |-> "ok", u |-> Second]
      [] text \in {"1", ""} -> [st |-> "ok", u |-> One]
      [] OTHER ->
            IF \E p \in Composite : p[1] = text
            THEN [st |-> "ok", u |-> (CHOOSE p \in Composite : p[1] = text)[2]]
            ELSE [st |-> "ValueError", u |-> One]

\* The formats asked of to_string: the default one, one whose texts are not
\* units texts, and a name that is no format.  NoFormat is format=None.
Formats == {"generic", "latex", "invalid"}
NoFormat == "None"

\* UnitBase.to_string(format).
to_string(u, format) ==
    CASE format = "generic" -> [st |-> "ok", s |-> Generic(u)]
      [] format = "latex" -> [st |-> "ok", s |-> "$" \o Generic(u) \o "$"]
      [] OTHER -> [st |-> "ValueError", s |-> ""]

\* ------------------------------------------------------------------- values

\* The units annotation of a labeled array, attrs["units"]: absent, a text,
\* or a unit object.
NoAnn == [k |-> "none", s |-> "", u |-> One]
StrAnn(text) == [k |-> "str", s |-> text, u |-> One]
ObjAnn(unit) == [k |-> "obj", s |-> "", u |-> unit]

\* The attributes of a labeled array other than "units": none, or a name.
NoOthers == ""

\* Operands.  k: "da" (xarray DataArray), "qty" (astropy Quantity), "num"
\* (plain number), "null" (None, a non-numeric object), "bool" (numpy bool),
\* "unit" (a bare astropy unit).  nd is the number of dimensions; u is the
\* unit of a Quantity; ann is the annotation of a DataArray and others its
\* other attributes.
DataArray(nd, dtype, data, ann) ==
    [k |-> "da", nd |-> nd, dtype |-> dtype, data |-> data, u |-> One, ann |-> ann,
     others |-> NoOthers]
QuantityValue(nd, data, unit) ==
    [k |-> "qty", nd |-> nd, dtype |-> "num", data |-> data, u |-> unit, ann |-> NoAnn,
     others |-> NoOthers]
Number(r) ==
    [k |-> "num", nd |-> 0, dtype |-> "num", data |-> <<r>>, u |-> One, ann |-> NoAnn,
     others |-> NoOthers]
Null ==
    [k |-> "null", nd |-> 0, dtype |-> "obj", data |-> <<>>, u |-> One, ann |-> NoAnn,
     others |-> NoOthers]
Bool ==
    [k |-> "bool", nd |-> 0, dtype |-> "bool", data |-> <<R(1)>>, u |-> One, ann |-> NoAnn,
     others |-> NoOthers]
UnitObject(unit) ==
    [k |-> "unit", nd |-> 0, dtype |-> "obj", data |-> <<>>, u |-> unit, ann |-> NoAnn,
     others |-> NoOthers]

Ok(v) == [st |-> "ok", v |-> v]
Err(e) == [st |-> e, v |-> Null]

\* utils.TESTER: the dry-run placeholder.
TESTER == Number(R(1))


\* An optional unit: what units_of returns (None or a unit) and what the
\* Quantity constructor takes.
NoUnits == [st |-> "ok", has |-> FALSE, u |-> One]
SomeUnits(u) == [st |-> "ok", has |-> TRUE, u |-> u]
UnitsErr(e) == [st |-> e, has |-> FALSE, u |-> One]

\* ------------------------------------------------------------ utils.units_of

\* units_of that forgets its strict flag: no units is never an error.
unitsof_lenient(obj, strict) ==
    IF obj.k = "qty"
    THEN SomeUnits(obj.u)
    ELSE IF obj.k = "da" /\ obj.ann.k = "str"
    THEN IF Unit(obj.ann.s).st = "ok"
         THEN SomeUnits(Unit(obj.ann.s).u)
         ELSE UnitsErr("UnitsNotValidError")
    ELSE IF obj.k = "da" /\ obj.ann.k = "obj"
    THEN SomeUnits(obj.ann.u)
    ELSE NoUnits

\* units_of(obj, strict=strict) with format=None.
unitsof(obj, strict) ==
    IF obj.k = "qty"
    THEN SomeUnits(obj.u)
    ELSE IF obj.k = "da" /\ obj.ann.k = "str"
    THEN IF Unit(obj.ann.s).st = "ok"
         THEN SomeUnits(Unit(obj.ann.s).u)
         ELSE UnitsErr("UnitsNotValidError")
    ELSE IF obj.k = "da" /\ obj.ann.k = "obj"
    THEN SomeUnits(obj.ann.u)
    ELSE IF strict
    THEN UnitsErr("UnitsNotFoundError")
    ELSE NoUnits

\* What units_of returns when a format is given: the text of the units.
Formatted(text) == [st |-> "ok", has |-> TRUE, text |-> text]

\* The error of to_string let through as it is.
in_format_raw(units, format) ==
    IF format = NoFormat THEN SomeUnits(units)
    ELSE IF to_string(units, format).st # "ok" THEN UnitsErr(to_string(units, format).st)
    ELSE Formatted(to_string(units, format).s)

\* Lines 143-149 and 161-167: the units as they are without a format, their
\* text in the format otherwise.
in_format(units, format) ==
    IF format = NoFormat THEN SomeUnits(units)
    ELSE IF to_string(units, format).st # "ok" THEN UnitsErr("UnitsConversionError")
    ELSE Formatted(to_string(units, format).s)

\* Unit(units) of line 154 for an annotation that is a text or a unit object.
parsed(ann) == IF ann.k = "str" THEN Unit(ann.s) ELSE [st |-> "ok", u |-> ann.u]

\* units_of that takes a malformed annotation for no units.
units_of_lenient(obj, format, strict) ==
    IF obj.k = "qty"
    THEN in_format(obj.u, format)
    ELSE IF obj.k = "da" /\ obj.ann.k # "none" /\ parsed(obj.ann).st = "ok"
    THEN in_format(parsed(obj.ann).u, format)
    ELSE IF strict
    THEN UnitsErr("UnitsNotFoundError")
    ELSE NoUnits

\* units_of(obj, format=format, strict=strict).
units_of(obj, format, strict) ==
    IF obj.k = "qty"
    THEN in_format(obj.u, format)
    ELSE IF obj.k = "da" /\ obj.ann.k # "none"
    THEN IF parsed(obj.ann).st # "ok"
         THEN UnitsErr("UnitsNotValidError")
         ELSE in_format(parsed(obj.ann).u, format)
    ELSE IF strict
    THEN UnitsErr("UnitsNotFoundError")
    ELSE NoUnits

\* ------------------------------------------------- astropy.units.Quantity

Scaled(data, f) == [i \in DOMAIN data |-> RMul(data[i], f)]

\* Quantity(value, unit): a plain number or an array takes the unit (none
\* means dimensionless); a Quantity is converted to the unit; an object
\* that is not numeric is refused.
Quantity(value, units) ==
    CASE value.k = "null" -> Err("TypeError")
      [] value.k = "qty" ->
            IF ~units.has
            THEN Ok(value)
            ELSE IF Convertible(value.u, units.u)
            THEN Ok(QuantityValue(value.nd,
                                  Scaled(value.data, ConvFactor(value.u, units.u)),
                                  units.u))
            ELSE Err("UnitConversionError")
      [] OTHER ->
            Ok(QuantityValue(value.nd, value.data,
                             IF units.has THEN units.u ELSE One))

\* One element of a binary numpy operator.
Scalar(op, a, b) ==
    CASE op = "add" -> RAdd(a, b)
      [] op = "sub" -> RSub(a, b)
      [] op = "mul" -> RMul(a, b)
      [] op = "truediv" -> RDiv(a, b)
      [] op = "floordiv" -> RFloorDiv(a, b)
      [] op = "mod" -> RMod(a, b)
      [] op = "pow" -> RPow(a, b)
      [] op = "lt" -> RBool(RLt(a, b))
      [] op = "le" -> RBool(RLe(a, b))
      [] op = "eq" -> RBool(a = b)
      [] op = "ne" -> RBool(a # b)
      [] op = "ge" -> RBool(RLe(b, a))
      [] op = "gt" -> RBool(RLt(b, a))

Comparisons == {"lt", "le", "eq", "ne", "ge", "gt"}

RECURSIVE Dot(_, _, _)
Dot(a, b, n) ==
    IF n = 0 THEN R(0) ELSE RAdd(Dot(a, b, n - 1), RMul(a[n], b[n]))

Payload(nd, dtype, data) == [st |-> "ok", nd |-> nd, dtype |-> dtype, data |-> data]
NoPayload(e) == [st |-> e, nd |-> 0, dtype |-> "num", data |-> <<>>]

\* A binary numpy operator on two payloads with broadcasting of scalars;
\* one-dimensional operands must have the same length, and matmul needs
\* two one-dimensional operands.
Elementwise(op, a, b) ==
    LET dtype == IF op \in Comparisons THEN "bool" ELSE "num"
    IN  IF op = "matmul"
        THEN IF a.nd = 1 /\ b.nd = 1 /\ Len(a.data) = Len(b.data)
             THEN Payload(0, "num", <<Dot(a.data, b.data, Len(a.data))>>)
             ELSE NoPayload("ValueError")
        ELSE IF b.nd = 0
        THEN Payload(a.nd, dtype,
                     [i \in DOMAIN a.data |-> Scalar(op, a.data[i], b.data[1])])
        ELSE IF a.nd = 0
        THEN Payload(b.nd, dtype,
                     [i \in DOMAIN b.data |-> Scalar(op, a.data[1], b.data[i])])
        ELSE IF Len(a.data) = Len(b.data)
        THEN Payload(1, dtype,
                     [i \in DOMAIN a.data |-> Scalar(op, a.data[i], b.data[i])])
        ELSE NoPayload("ValueError")

\* The unit algebra of a Quantity method (astropy's ufunc helpers): the
\* unit of q.__<method>__(arg), none for a comparison, or the failure.
ResultUnit(method, q, arg) ==
    CASE method \in {"mul"} -> SomeUnits(UnitMul(q.u, arg.u))
      [] method = "truediv" -> SomeUnits(UnitDiv(q.u, arg.u))
      [] method \in {"add", "sub", "mod"} ->
            IF Convertible(arg.u, q.u) THEN SomeUnits(q.u)
            ELSE UnitsErr("UnitConversionError")
      [] method = "floordiv" ->
            IF Convertible(arg.u, q.u) THEN SomeUnits(One)
            ELSE UnitsErr("UnitConversionError")
      [] method \in {"lt", "le", "ge", "gt"} ->
            IF Convertible(arg.u, q.u) THEN NoUnits
            ELSE UnitsErr("UnitConversionError")
      [] method \in {"eq", "ne"} -> NoUnits
      [] method = "pow" ->
            IF ~IsDimensionless(arg.u)
            THEN UnitsErr("UnitTypeError")
            ELSE IF IsUnity(q.u)
            THEN SomeUnits(One)
            ELSE IF arg.nd = 0
            THEN SomeUnits(UnitPow(q.u, RFloor(RMul(arg.data[1], ConvFactor(arg.u, One)))))
            ELSE IF IsDimensionless(q.u)
            THEN SomeUnits(One)
            ELSE UnitsErr("ValueError")
      [] OTHER -> UnitsErr("ValueError")

\* q.__<method>__(arg) for two quantities: the quantity with the computed
\* magnitude, or a plain boolean for a comparison.
QuantityResult(method, q, arg, ru, out) ==
    IF ru.st # "ok" THEN Err(ru.st)
    ELSE IF method \in {"eq", "ne"} /\ ~Convertible(arg.u, q.u)
    THEN Ok([Bool EXCEPT !.data = <<RBool(method = "ne")>>])
    ELSE IF out.st # "ok" THEN Err(out.st)
    ELSE IF ru.has THEN Ok(QuantityValue(out.nd, out.data, ru.u))
    ELSE Ok([Bool EXCEPT !.nd = out.nd, !.data = out.data])

\* The argument of a method that needs it in the unit of q, converted.
InUnitOf(method, q, arg) ==
    IF method \in {"add", "sub", "mod", "floordiv"} \cup Comparisons
    THEN [arg EXCEPT !.data = Scaled(arg.data, ConvFactor(arg.u, q.u))]
    ELSE arg

QuantityMethod(method, q, arg) ==
    QuantityResult(method, q, arg, ResultUnit(method, q, arg),
                   Elementwise(method, q, InUnitOf(method, q, arg)))

\* A conversion that changes the unit and leaves the magnitude.
QuantityTo_relabel(q, units) ==
    LET target == IF units.k = "str" THEN Unit(units.s) ELSE [st |-> "ok", u |-> units.u]
    IN  IF target.st # "ok" THEN Err(target.st)
        ELSE IF ~Convertible(q.u, target.u) THEN Err("UnitConversionError")
        ELSE Ok(QuantityValue(q.nd, q.data, target.u))

\* q.to(units): units is a text or a unit object.
QuantityTo(q, units) ==
    LET target == IF units.k = "str" THEN Unit(units.s) ELSE [st |-> "ok", u |-> units.u]
    IN  IF target.st # "ok" THEN Err(target.st)
        ELSE IF ~Convertible(q.u, target.u) THEN Err("UnitConversionError")
        ELSE Ok(QuantityValue(q.nd, Scaled(q.data, ConvFactor(q.u, target.u)), target.u))

\* The unit in the base symbols of the SI: km written in m.
Decomposed(u) == [km |-> 0, m |-> u.km + u.m, s |-> u.s]

\* q.decompose() and the property q.si.
QuantityDecompose(q) ==
    Ok(QuantityValue(q.nd, Scaled(q.data, ConvFactor(q.u, Decomposed(q.u))),
                     Decomposed(q.u)))

BinaryMethods ==
    {"mul", "pow", "matmul", "truediv", "add", "sub", "floordiv", "mod",
     "lt", "le", "eq", "ne", "ge", "gt"}


\* ------------------------------------------------------ quantity.apply_any

\* apply_any(data, units, method, arg): the attribute `method` of
\* Quantity(data, units), called with arg.  arg is a quantity for a binary
\* method and the target units for "to".
getattr(q, method, arg) ==
    IF q.st # "ok" THEN Err(q.st)
    ELSE IF method = "to" THEN QuantityTo(q.v, arg)
    ELSE IF method \in {"decompose", "si"} THEN QuantityDecompose(q.v)
    ELSE IF method = "value" THEN Ok([Number(R(0)) EXCEPT !.nd = q.v.nd, !.data = q.v.data])
    ELSE IF method \in BinaryMethods THEN QuantityMethod(method, q.v, arg)
    ELSE Err("AttributeError")

apply_any(data, units, method, arg) ==
    getattr(Quantity(data, SomeUnits(units)), method, arg)

\* ------------------------------------------------- quantity.set and unset

\* set(da, units, overwrite=overwrite): units (a text or a unit object) is
\* stored as given.
\* The objects of a call: self is the array passed in, out the newest array
\* made during the call, ref tells which of the two the name da is bound to.
Frame(da) == [ref |-> "self", self |-> da, out |-> Null]
Deref(f) == f[f.ref]

\* What a function working on a frame leaves: st is "ok" or the exception.
Done(f) == [st |-> "ok", f |-> f]
Raised(e, f) == [st |-> e, f |-> f]

\* What the caller gets from it: the array da is bound to, or the exception.
Returned(r) == IF r.st = "ok" THEN Ok(Deref(r.f)) ELSE Err(r.st)

\* A copy that is the array itself.
Copy_alias(f) == f

\* DataArray.copy: a new array with the attributes and the data of the one
\* da is bound to; da is bound to the new one.
Copy(f) == [f EXCEPT !.out = f[f.ref], !.ref = "out"]

\* Every attribute removed, and every attribute replaced by the units.
clear(f) == [f EXCEPT ![f.ref].ann = NoAnn, ![f.ref].others = NoOthers]
replace(f, units) == [f EXCEPT ![f.ref].ann = units, ![f.ref].others = NoOthers]

\* da.attrs.pop("units", None) and da.attrs.update({"units": units}): both
\* write into the array da is bound to.
pop(f) == [f EXCEPT ![f.ref].ann = NoAnn]
update(f, units) == [f EXCEPT ![f.ref].ann = units]

\* DataArray.assign_attrs: a copy, updated.
assign_attrs(f, units) == update(Copy(f), units)

\* set that tests for units whatever overwrite says.
set_in_strict(f, units, overwrite) ==
    IF unitsof(Deref(f), FALSE).st # "ok" THEN Raised(unitsof(Deref(f), FALSE).st, f)
    ELSE IF unitsof(Deref(f), FALSE).has THEN Raised("UnitsExistError", f)
    ELSE Done(assign_attrs(f, units))

\* set, lines 219-223: the test for units, then assign_attrs.
set_in(f, units, overwrite) ==
    LET old == IF overwrite THEN NoUnits ELSE unitsof(Deref(f), FALSE)
    IN  IF old.st # "ok" THEN Raised(old.st, f)
        ELSE IF old.has THEN Raised("UnitsExistError", f)
        ELSE Done(assign_attrs(f, units))

set(da, units, overwrite) == Returned(set_in(Frame(da), units, overwrite))

unset_in(f) == pop(Copy(f))

unset(da) == Deref(unset_in(Frame(da)))

\* ------------------------------------------------- quantity.apply and to

\* DataArray.map_blocks(per_block) on an array held in memory: per_block on
\* the whole array, block.copy(data=...) keeping the attributes.
\* block.copy(data=data): a copy whose data are the given ones.
copy(f, data) ==
    IF data.st # "ok" THEN Raised(data.st, f)
    ELSE IF data.v.nd # Deref(f).nd \/ Len(data.v.data) # Len(Deref(f).data)
    THEN Raised("ValueError", f)
    ELSE Done([Copy(f) EXCEPT ![Copy(f).ref].data = data.v.data,
                              ![Copy(f).ref].dtype = data.v.dtype])

map_blocks(f, units, method, arg) ==
    copy(f, apply_any(Deref(f), units, method, arg))

\* apply from the dry run on (lines 66-76), given the dry-run value and the
\* result of map_blocks.
\* apply that returns the result of map_blocks as it is, unstamped.
apply_blocks_keep(f, test, result) ==
    IF test.st # "ok" THEN Raised("UnitsConversionError", f)
    ELSE IF result.st # "ok" THEN Raised("UnitsConversionError", result.f)
    ELSE Done(result.f)

\* apply that lets the exceptions of the library through.
apply_blocks_raw(f, test, result) ==
    IF test.st # "ok" THEN Raised(test.st, f)
    ELSE IF result.st # "ok" THEN Raised(result.st, result.f)
    ELSE IF unitsof(test.v, TRUE).st # "ok"
    THEN Raised(unitsof(test.v, TRUE).st, result.f)
    ELSE set_in(result.f, ObjAnn(unitsof(test.v, TRUE).u), TRUE)

apply_blocks(f, test, result) ==
    IF test.st # "ok" THEN Raised("UnitsConversionError", f)
    ELSE IF result.st # "ok" THEN Raised("UnitsConversionError", result.f)
    ELSE IF unitsof(test.v, TRUE).st # "ok"
    THEN Raised(unitsof(test.v, TRUE).st, result.f)
    ELSE set_in(result.f, ObjAnn(unitsof(test.v, TRUE).u), TRUE)

apply_units(f, method, arg, units) ==
    IF units.st # "ok" THEN Raised(units.st, f)
    ELSE apply_blocks(f, apply_any(TESTER, units.u, method, arg),
                      map_blocks(f, units.u, method, arg))

apply_in(f, method, arg) == apply_units(f, method, arg, unitsof(Deref(f), TRUE))

\* The steps of apply entered, in order (lines 60, 67, 72 and 76), given
\* the units read, the dry-run value and the result of map_blocks.
apply_steps(units, test, result) ==
    IF units.st # "ok" THEN <<"units">>
    ELSE IF test.st # "ok" THEN <<"units", "test">>
    ELSE IF result.st # "ok" THEN <<"units", "test", "map_blocks">>
    ELSE IF unitsof(test.v, TRUE).st # "ok"
    THEN <<"units", "test", "map_blocks", "test_units">>
    ELSE <<"units", "test", "map_blocks", "test_units", "stamp">>

apply_log(da, method, arg) ==
    apply_steps(unitsof(da, TRUE),
                apply_any(TESTER, unitsof(da, TRUE).u, method, arg),
                map_blocks(Frame(da), unitsof(da, TRUE).u, method, arg))

apply(da, method, arg) == Returned(apply_in(Frame(da), method, arg))

\* to(da, units) with equivalencies=None.
to_in(f, units) == apply_in(f, "to", units)

to(da, units) == apply(da, "to", units)

decompose_in(f) == apply_in(f, "decompose", Null)

decompose(da) == apply(da, "decompose", Null)

\* like that wraps the failure to read the units of other.
like_units_wrapped(f, units) ==
    IF units.st # "ok" THEN Raised("UnitsConversionError", f)
    ELSE apply_in(f, "to", ObjAnn(units.u))

\* like(da, other) with equivalencies=None.
like_units(f, units) ==
    IF units.st # "ok" THEN Raised(units.st, f)
    ELSE apply_in(f, "to", ObjAnn(units.u))

like_in(f, other) == like_units(f, unitsof(other, TRUE))

like(da, other) == Returned(like_in(Frame(da), other))

\* format(da, format) for an array without coordinates.
format_units(f, units) ==
    IF units.st # "ok" THEN Raised(units.st, f)
    ELSE set_in(f, StrAnn(units.text), TRUE)

format_in(f, format) == format_units(f, units_of(Deref(f), format, TRUE))

format(da, name) == Returned(format_in(Frame(da), name))


\* ------------------------------------------------------------ operator.take

AnyUnitsOperator == {"mul", "pow", "matmul", "truediv"}

\* The same-units operators without mod (mod left among the others).
SameUnitsOperator_old ==
    {"add", "sub", "floordiv", "lt", "le", "eq", "ne", "ge", "gt"}

SameUnitsOperator ==
    {"add", "sub", "floordiv", "mod", "lt", "le", "eq", "ne", "ge", "gt"}
Operator == AnyUnitsOperator \cup SameUnitsOperator

\* The 14 operator functions of the module, each take with its own name.
Wrappers ==
    {"mul", "pow", "matmul", "truediv", "add", "sub", "floordiv", "mod",
     "lt", "le", "eq", "ne", "ge", "gt"}

\* The dry run with the method of the operator's own name, always.
Method_plain(operator) == operator

\* The Quantity method of the dry run (operator.py, lines 78-89).
Method(operator) ==
    CASE operator = "matmul" -> "mul"
      [] operator \in {"eq", "ne"} -> "lt"
      [] OTHER -> operator

\* The dry run of pow on the placeholder, like every other operator.
Args_tester(operator, right, right_units) == Quantity(TESTER, right_units)

\* The dry run of pow on the right operand without its units.
Args_nounits(operator, right, right_units) ==
    IF operator = "pow"
    THEN Quantity(right, NoUnits)
    ELSE Quantity(TESTER, right_units)

\* The argument of the dry run: the quantity of the right operand itself
\* for pow, of the placeholder otherwise.
Args(operator, right, right_units) ==
    IF operator = "pow"
    THEN Quantity(right, right_units)
    ELSE Quantity(TESTER, right_units)

\* take that forgets to convert the right operand.
Convert_skip(operator, right, left_units) == Ok(right)

\* Quantity.value: the magnitude of a quantity, a plain number or array.
value(q) ==
    IF q.st # "ok" THEN Err(q.st)
    ELSE Ok([Number(R(0)) EXCEPT !.nd = q.v.nd, !.data = q.v.data])

\* The conversion of the right operand of a same-units operator into the
\* units of left (lines 96-101): the magnitude of a Quantity, the converted
\* array of a DataArray, anything else as it is.
Convert(operator, right, left_units) ==
    IF operator \notin SameUnitsOperator THEN Ok(right)
    ELSE IF right.k = "qty"
    THEN value(QuantityTo(right, ObjAnn(left_units)))
    ELSE IF right.k = "da"
    THEN to(right, ObjAnn(left_units))
    ELSE Ok(right)

\* The array xarray's binary operator returns for the computed payload
\* out.  keep is xarray's keep_attrs option: whether the result keeps the
\* attributes of left.
Binary(left, out, keep) ==
    IF out.st # "ok" THEN Err(out.st)
    ELSE IF keep
    THEN Ok([left EXCEPT !.nd = out.nd, !.dtype = out.dtype, !.data = out.data])
    ELSE Ok(DataArray(out.nd, out.dtype, out.data, NoAnn))

\* getattr(opr, operator)(left, right) on a DataArray left: xarray's binary
\* operator.  A Quantity or a number on the right enters with its magnitude,
\* None only compares (unequal to everything).
Operate(operator, left, right, keep) ==
    Binary(left,
           IF right.k = "null"
           THEN IF operator \in {"eq", "ne"}
                THEN Payload(left.nd, "bool",
                             [i \in DOMAIN left.data |-> RBool(operator = "ne")])
                ELSE NoPayload("TypeError")
           ELSE Elementwise(operator, left, right),
           keep)

\* The exception of the library let through as it is.
TestError_raw(error) == error
ResultError_raw(error) == error

\* The exception take raises when the dry run fails (lines 93-94) and when
\* the operator on the data fails (lines 105-106), given the one caught.
TestError(error) == "UnitsConversionError"
ResultError(error) == "UnitsConversionError"

\* What a call of take leaves behind: st is "ok" or the name of the
\* exception raised, v the value returned, log the steps entered in order,
\* test the units of the dry-run value.
Outcome(st, v, log, test) == [st |-> st, v |-> v, log |-> log, test |-> test]

\* The result always without units, and the result not stripped.
Stamp_unset(result, units) == Ok(unset(result))
Stamp_keep(result, units) ==
    IF ~units.has THEN Ok(result) ELSE set(result, ObjAnn(units.u), TRUE)

\* The units attached only where the result carries none yet.
Stamp_careful(result, units) ==
    IF ~units.has THEN Ok(unset(result)) ELSE set(result, ObjAnn(units.u), FALSE)

\* The units annotation of the result (lines 108-111).
Stamp(result, units) ==
    IF ~units.has THEN Ok(unset(result)) ELSE set(result, ObjAnn(units.u), TRUE)

\* The steps of take entered by the time the right operand is converted.
Entered(operator, right) ==
    <<"left_units", "right_units", "args", "test">>
    \o (IF operator \in SameUnitsOperator /\ right.k \in {"qty", "da"}
        THEN <<"convert">> ELSE <<>>)

\* take from line 108 on, given the units of the dry run, the steps entered
\* so far and the outcome of the operator on the data.
take_stamp(units, log, result) ==
    IF result.st # "ok"
    THEN Outcome(ResultError(result.st), Null, log \o <<"operate">>, units)
    ELSE Outcome(Stamp(result.v, units).st, Stamp(result.v, units).v,
                 log \o <<"operate", "stamp">>, units)

\* take from line 103 on, given the converted right operand.
take_operate(left, operator, keep, units, log, converted) ==
    IF converted.st # "ok"
    THEN Outcome(converted.st, Null, log, units)
    ELSE take_stamp(units, log, Operate(operator, left, converted.v, keep))

\* take that converts the right operand before it looks at the dry run.
take_convert_eager(left, operator, right, keep, left_units, test) ==
    IF Convert(operator, right, left_units.u).st # "ok"
    THEN Outcome(Convert(operator, right, left_units.u).st, Null,
                 Entered(operator, right), NoUnits)
    ELSE IF test.st # "ok"
    THEN Outcome(TestError(test.st), Null, Entered(operator, right), NoUnits)
    ELSE take_operate(left, operator, keep, unitsof(test.v, FALSE),
                      Entered(operator, right),
                      Convert(operator, right, left_units.u))

\* take from line 96 on, given the outcome of the dry run.
take_convert(left, operator, right, keep, left_units, test) ==
    IF test.st # "ok"
    THEN Outcome(TestError(test.st), Null,
                 <<"left_units", "right_units", "args", "test">>, NoUnits)
    ELSE take_operate(left, operator, keep, unitsof(test.v, FALSE),
                      Entered(operator, right),
                      Convert(operator, right, left_units.u))

\* take from line 91 on, given the argument of the dry run.
take_test(left, operator, right, keep, left_units, args) ==
    IF args.st # "ok"
    THEN Outcome(args.st, Null, <<"left_units", "right_units", "args">>, NoUnits)
    ELSE take_convert(left, operator, right, keep, left_units,
                      apply_any(TESTER, left_units.u, Method(operator), args.v))

\* take from line 78 on, given the units of both operands.
take_args(left, operator, right, keep, left_units, right_units) ==
    IF left_units.st # "ok"
    THEN Outcome(left_units.st, Null, <<"left_units">>, NoUnits)
    ELSE IF right_units.st # "ok"
    THEN Outcome(right_units.st, Null, <<"left_units", "right_units">>, NoUnits)
    ELSE take_test(left, operator, right, keep, left_units,
                   Args(operator, right, right_units))

take(left, operator, right, keep) ==
    take_args(left, operator, right, keep, unitsof(left, TRUE), unitsof(right, FALSE))


\* -------------------------------------------------------------- the caller

\* da: the array the caller holds; call: the last call of the library, with
\* its arguments and its outcome; chain: how many results were fed back.
VARIABLES da, call, chain

vars == <<da, call, chain>>

Ramp(n) == [i \in 1..n |-> R(i)]

Annotations == {NoAnn} \cup {StrAnn(t) : t \in UnitTexts}

\* The arrays a caller starts from: [1, 2] and [1, 2, 3], with any annotation.
Arrays ==
    {DataArray(1, "num", Ramp(n), a) : n \in (MaxLen - 1)..MaxLen, a \in Annotations}

Quantities ==
    {QuantityValue(0, <<R(2)>>, One), QuantityValue(0, <<R(2)>>, Km),
     QuantityValue(0, <<R(2000)>>, Metre), QuantityValue(0, <<R(2)>>, Second)}

\* The right operands: None, the number 2, scalar quantities and arrays.
Rights == {Null, Number(R(2))} \cup Quantities \cup Arrays

NoCall ==
    [fn |-> "none", left |-> Null, operator |-> "", right |-> Null,
     st |-> "none", v |-> Null, log |-> <<>>, test |-> NoUnits]

Call(fn, left, operator, right, o) ==
    [fn |-> fn, left |-> left, operator |-> operator, right |-> right,
     st |-> o.st, v |-> o.v, log |-> o.log, test |-> o.test]

Init ==
    /\ da \in Arrays
    /\ call = NoCall
    /\ chain = 0

\* take(da, operator, right)
Take ==
    \E operator \in Wrappers, right \in Rights, keep \in BOOLEAN :
        /\ call = NoCall
        /\ call' = Call("take", da, operator, right, take(da, operator, right, keep))
        /\ UNCHANGED <<da, chain>>

Small(v) ==
    /\ \A i \in DOMAIN v.data :
          Abs(v.data[i][1]) <= MaxMagnitude /\ v.data[i][2] <= MaxMagnitude
    /\ Abs(v.ann.u.km) <= MaxPower /\ Abs(v.ann.u.m) <= MaxPower
    /\ Abs(v.ann.u.s) <= MaxPower

\* The caller goes on with the array the last call returned.
Rebind ==
    /\ call.st = "ok"
    /\ call.v.k = "da" /\ call.v.nd = 1
    /\ Small(call.v)
    /\ chain < MaxChain
    /\ da' = call.v
    /\ call' = NoCall
    /\ chain' = chain + 1

\* The caller drops what the last call returned or raised.
Return ==
    /\ call # NoCall
    /\ call' = NoCall
    /\ UNCHANGED <<da, chain>>

\* The caller starts again from a fresh array.
Fresh ==
    /\ call = NoCall
    /\ da' \in Arrays
    /\ call' = NoCall
    /\ chain' = 0

Next == Take \/ Rebind \/ Return \/ Fresh

Spec == Init /\ [][Next]_vars

\* ------------------------------------- the caller of the quantity functions

\* The arrays a caller starts from, without and with another attribute.
NamedArrays == Arrays \cup {[a EXCEPT !.others = "long_name"] : a \in Arrays}

\* The units a caller passes: a text or a unit object.
UnitsLike == {StrAnn(t) : t \in UnitTexts} \cup {ObjAnn(Metre)}

\* The objects a caller asks the units of: the array, a plain number, a bare
\* unit and a scalar quantity.
Objects == {da, Number(R(1)), UnitObject(Metre), QuantityValue(0, <<R(1)>>, Metre)}

\* The other arrays a caller passes: [1, .., MaxLen] with any annotation.
Others == {DataArray(1, "num", Ramp(MaxLen), a) : a \in Annotations}

\* The right operands of take here: the number 2, 2 km, 2000 m and the
\* other arrays.
Operands ==
    {Number(R(2)), QuantityValue(0, <<R(2)>>, Km), QuantityValue(0, <<R(2000)>>, Metre)}
    \cup Others

\* The methods and properties a caller names in apply, with the argument.
Methods ==
    {<<"to", StrAnn("m")>>, <<"to", StrAnn("s")>>, <<"decompose", Null>>,
     <<"si", Null>>, <<"value", Null>>, <<"unknown", Null>>}
    \cup {<<"add", q>> : q \in Quantities \cup {QuantityValue(1, Ramp(MaxLen), Metre)}}

\* A call of a quantity function: left is the array passed in and after the
\* same array once the call is over (right and right_after likewise for a
\* second array), flag is overwrite or strict, units is what units_of gave.
Called(fn, left, operator, right, flag, r, after, right_after) ==
    [fn |-> fn, left |-> left, operator |-> operator, right |-> right,
     flag |-> flag, st |-> r.st, v |-> r.v, log |-> <<>>, test |-> NoUnits,
     units |-> NoUnits, after |-> after, right_after |-> right_after]

InitQuantity ==
    /\ da \in NamedArrays
    /\ call = NoCall
    /\ chain = 0

\* units_of(obj, format=format, strict=strict): reads only.
Units_of ==
    \E obj \in Objects, name \in Formats \cup {NoFormat}, strict \in BOOLEAN :
        /\ call = NoCall
        /\ call' = [Called("units_of", obj, name, Null, strict,
                            Err(units_of(obj, name, strict).st), obj, Null)
                      EXCEPT !.units = units_of(obj, name, strict)]
        /\ UNCHANGED <<da, chain>>

\* set(da, units, overwrite=overwrite)
Set ==
    \E units \in UnitsLike, overwrite \in BOOLEAN :
        /\ call = NoCall
        /\ call' = Called("set", da, "", units, overwrite,
                          Returned(set_in(Frame(da), units, overwrite)),
                          set_in(Frame(da), units, overwrite).f.self, Null)
        /\ da' = set_in(Frame(da), units, overwrite).f.self
        /\ UNCHANGED chain

\* unset(da)
Unset ==
    /\ call = NoCall
    /\ call' = Called("unset", da, "", Null, FALSE,
                      Ok(Deref(unset_in(Frame(da)))),
                      unset_in(Frame(da)).self, Null)
    /\ da' = unset_in(Frame(da)).self
    /\ UNCHANGED chain

\* format(da, format)
Format ==
    \E name \in Formats :
        /\ call = NoCall
        /\ call' = Called("format", da, name, Null, FALSE,
                          Returned(format_in(Frame(da), name)),
                          format_in(Frame(da), name).f.self, Null)
        /\ da' = format_in(Frame(da), name).f.self
        /\ UNCHANGED chain

\* to(da, units)
To ==
    \E units \in UnitsLike :
        /\ call = NoCall
        /\ call' = Called("to", da, "", units, FALSE,
                          Returned(to_in(Frame(da), units)),
                          to_in(Frame(da), units).f.self, Null)
        /\ da' = to_in(Frame(da), units).f.self
        /\ UNCHANGED chain

\* like(da, other)
Like ==
    \E other \in Others :
        /\ call = NoCall
        /\ call' = Called("like", da, "", other, FALSE,
                          Returned(like_in(Frame(da), other)),
                          like_in(Frame(da), other).f.self, other)
        /\ da' = like_in(Frame(da), other).f.self
        /\ UNCHANGED chain

\* decompose(da)
Decompose ==
    /\ call = NoCall
    /\ call' = Called("decompose", da, "", Null, FALSE,
                      Returned(decompose_in(Frame(da))),
                      decompose_in(Frame(da)).f.self, Null)
    /\ da' = decompose_in(Frame(da)).f.self
    /\ UNCHANGED chain

\* apply(da, method, arg)
Apply ==
    \E m \in Methods :
        /\ call = NoCall
        /\ call' = [Called("apply", da, m[1], m[2], FALSE,
                           Returned(apply_in(Frame(da), m[1], m[2])),
                           apply_in(Frame(da), m[1], m[2]).f.self, Null)
                      EXCEPT !.log = apply_log(da, m[1], m[2])]
        /\ da' = apply_in(Frame(da), m[1], m[2]).f.self
        /\ UNCHANGED chain

\* take(da, operator, right): no statement of take writes into left, and
\* right is written by nothing but the conversion to(right, left_units).
TakeQuantity ==
    \E operator \in Wrappers, right \in Operands :
        /\ call = NoCall
        /\ call' = [Called("take", da, operator, right, FALSE,
                            take(da, operator, right, FALSE), da,
                            IF /\ right.k = "da"
                               /\ \E i \in DOMAIN take(da, operator, right, FALSE).log :
                                     take(da, operator, right, FALSE).log[i] = "convert"
                            THEN to_in(Frame(right), ObjAnn(unitsof(da, TRUE).u)).f.self
                            ELSE right)
                      EXCEPT !.log = take(da, operator, right, FALSE).log,
                             !.test = take(da, operator, right, FALSE).test]
        /\ UNCHANGED <<da, chain>>

\* The caller starts again from a fresh array.
Another ==
    /\ call = NoCall
    /\ da' \in NamedArrays
    /\ call' = NoCall
    /\ chain' = 0

NextQuantity ==
    \/ Units_of \/ Set \/ Unset \/ Format \/ To \/ Like \/ Decompose \/ Apply
    \/ TakeQuantity \/ Rebind \/ Return \/ Another

SpecQuantity == InitQuantity /\ [][NextQuantity]_vars


\* ============================================================ operator.py
\* The 14 operator functions (lines 114-406), under xarray's default of
\* dropping the attributes in a binary operation.

mul(left, right) == take(left, "mul", right, FALSE)
pow(left, right) == take(left, "pow", right, FALSE)
matmul(left, right) == take(left, "matmul", right, FALSE)
truediv(left, right) == take(left, "truediv", right, FALSE)
add(left, right) == take(left, "add", right, FALSE)
sub(left, right) == take(left, "sub", right, FALSE)
floordiv(left, right) == take(left, "floordiv", right, FALSE)
mod(left, right) == take(left, "mod", right, FALSE)
lt(left, right) == take(left, "lt", right, FALSE)
le(left, right) == take(left, "le", right, FALSE)
eq(left, right) == take(left, "eq", right, FALSE)
ne(left, right) == take(left, "ne", right, FALSE)
ge(left, right) == take(left, "ge", right, FALSE)

\* gt that takes the operator of ge.
gt_or_equal(left, right) == take(left, "ge", right, FALSE)

gt(left, right) == take(left, "gt", right, FALSE)

\* What a call of take or of an operator function leaves to its caller.
Result(o) == [st |-> o.st, v |-> o.v]

\* getattr(operator, name)(left, right) for the names of operator.__all__
\* but take.
operator_function(name, left, right) ==
    CASE name = "mul" -> mul(left, right)
      [] name = "pow" -> pow(left, right)
      [] name = "matmul" -> matmul(left, right)
      [] name = "truediv" -> truediv(left, right)
      [] name = "add" -> add(left, right)
      [] name = "sub" -> sub(left, right)
      [] name = "floordiv" -> floordiv(left, right)
      [] name = "mod" -> mod(left, right)
      [] name = "lt" -> lt(left, right)
      [] name = "le" -> le(left, right)
      [] name = "eq" -> eq(left, right)
      [] name = "ne" -> ne(left, right)
      [] name = "ge" -> ge(left, right)
      [] name = "gt" -> gt(left, right)

\* The functions of quantity.__all__.
QuantityNames == {"apply", "decompose", "format", "like", "set", "to", "unset"}

\* func(da, a, b) for a function of quantity or operator named func, on an
\* array without coordinates: a and b are the arguments after the array.
Function(func, array, a, b) ==
    CASE func = "apply" -> apply(array, a, b)
      [] func = "decompose" -> decompose(array)
      [] func = "format" -> format(array, a)
      [] func = "like" -> like(array, a)
      [] func = "set" -> set(array, a, b)
      [] func = "to" -> to(array, a)
      [] func = "unset" -> Ok(unset(array))
      [] func = "take" -> Result(take(array, a, b, FALSE))
      [] OTHER -> Result(operator_function(func, array, a))

\* ============================================================= accessor.py

\* An array with coordinates: the array and, by name, its coordinates, each
\* the dimension coordinate of a dimension of its own (so that a coordinate
\* carries no coordinate but itself).
WithCoords(array, coords) ==
    [k |-> array.k, u |-> array.u, nd |-> array.nd, dtype |-> array.dtype,
     data |-> array.data, ann |-> array.ann, others |-> array.others,
     coords |-> coords]

\* The array without its coordinates.
Core(array) ==
    [k |-> array.k, u |-> array.u, nd |-> array.nd, dtype |-> array.dtype,
     data |-> array.data, ann |-> array.ann, others |-> array.others]

\* da.assign_coords({name: coord})
assign_coords(array, name, coord) ==
    [array EXCEPT !.coords = [n \in DOMAIN array.coords |->
                                 IF n = name THEN Core(coord) ELSE array.coords[n]]]

\* The order of da.coords.items().
CoordNames == <<"x", "y">>

\* quantity.format, lines 156-161: the units of every coordinate that has
\* units formatted too.
RECURSIVE format_coords(_, _, _)
format_coord(array, name, keys, units) ==
    IF units.st # "ok" THEN Err(units.st)
    ELSE IF ~units.has THEN format_coords(array, name, Tail(keys))
    ELSE format_coords(
             assign_coords(array, Head(keys),
                           set(array.coords[Head(keys)], StrAnn(units.text), TRUE).v),
             name, Tail(keys))

format_coords(array, name, keys) ==
    IF keys = <<>> THEN Ok(array)
    ELSE format_coord(array, name, keys,
                      units_of(array.coords[Head(keys)], name, FALSE))

\* The coordinates go with the array through every function of the package.
kept(r, coords) == IF r.st = "ok" THEN Ok(WithCoords(r.v, coords)) ELSE r

formatted(r, name, coords) ==
    IF r.st # "ok" THEN r ELSE format_coords(WithCoords(r.v, coords), name, CoordNames)

\* func(units.accessed, *args) of line 37, on an array with coordinates.
on_accessed(func, array, a, b) ==
    IF func = "format"
    THEN formatted(Function(func, Core(array), a, b), a, array.coords)
    ELSE kept(Function(func, Core(array), a, b), array.coords)

\* The values given as chain: an int or a float.
IntValue(i) == [k |-> "int", i |-> i]
FloatValue(i) == [k |-> "float", i |-> i]

\* The values given as of: None, a name, a list or a tuple of names, and a
\* set of names.
NoOf == [k |-> "none", names |-> <<>>]
Str(name) == [k |-> "str", names |-> <<name>>]
List(names) == [k |-> "list", names |-> names]
Tuple(names) == [k |-> "tuple", names |-> names]
Set_(names) == [k |-> "set", names |-> names]

\* isinstance(of, Hashable) and isinstance(of, Sequence)
Hashable(of) == of.k \in {"none", "str", "tuple"}
Sequence(of) == of.k \in {"str", "list", "tuple"}

\* Units(accessed, chain=n, of=of) with __post_init__ (lines 193-199).
Units(accessed, n, of) ==
    IF ~(n.k = "int" /\ n.i > 0) THEN Err("TypeError")
    ELSE IF ~(Hashable(of) \/ Sequence(of)) THEN Err("TypeError")
    ELSE Ok([k |-> "units", accessed |-> accessed, chain |-> n.i, of |-> of])

\* units(accessed, chain=n, of=of), the function of line 59.
accessor(accessed, n, of) == Units(accessed, n, of)

\* Units.__call__(chain=n, of=of): replace(self, chain=chain, of=of).
Units_call(self, n, of) == Units(self.accessed, n, of)

\* The attributes of Units that are methods (lines 121-161) and the function
\* each wraps.
Dunders ==
    {"__mul__", "__pow__", "__matmul__", "__truediv__", "__add__", "__sub__",
     "__floordiv__", "__mod__", "__lt__", "__le__", "__eq__", "__ne__",
     "__ge__", "__gt__"}

wrapped(attr) ==
    CASE attr = "__mul__" -> "mul"
      [] attr = "__pow__" -> "pow"
      [] attr = "__matmul__" -> "matmul"
      [] attr = "__truediv__" -> "truediv"
      [] attr = "__add__" -> "add"
      [] attr = "__sub__" -> "sub"
      [] attr = "__floordiv__" -> "floordiv"
      [] attr = "__mod__" -> "mod"
      [] attr = "__lt__" -> "lt"
      [] attr = "__le__" -> "le"
      [] attr = "__eq__" -> "eq"
      [] attr = "__ne__" -> "ne"
      [] attr = "__ge__" -> "ge"
      [] attr = "__gt__" -> "gt"
      [] OTHER -> attr

\* Lines 42-45: a hashable of is one key, anything else is iterated; each
\* key is looked up in da.coords, which has names only.
Keys(of) == IF Hashable(of) THEN <<of>> ELSE [i \in DOMAIN of.names |-> Str(of.names[i])]

IsCoord(array, key) == key.k = "str" /\ key.names[1] \in DOMAIN array.coords

Selected(array, of) ==
    IF \A i \in DOMAIN Keys(of) : IsCoord(array, Keys(of)[i])
    THEN Ok([i \in DOMAIN Keys(of) |-> Keys(of)[i].names[1]])
    ELSE Err("KeyError")

\* The loop of lines 47-49: func on each selected coordinate of the array
\* accessed, the result assigned to the array so far.
RECURSIVE assign_each(_, _, _, _, _, _)
assign_one(func, a, b, accessed, array, names, coord) ==
    IF coord.st # "ok" THEN Err(coord.st)
    ELSE assign_each(func, a, b, accessed,
                     assign_coords(array, Head(names), coord.v), Tail(names))

assign_each(func, a, b, accessed, array, names) ==
    IF names = <<>> THEN Ok(array)
    ELSE assign_one(func, a, b, accessed, array, names,
                    Function(func, accessed.coords[Head(names)], a, b))

of_coords(func, acc, a, b, selected) ==
    IF selected.st # "ok" THEN Err(selected.st)
    ELSE assign_each(func, a, b, acc.accessed, acc.accessed, selected.v)

\* Lines 36-49: the array the wrapper goes on with.
wrapper_array(func, acc, a, b) ==
    IF acc.of.k = "none"
    THEN on_accessed(func, acc.accessed, a, b)
    ELSE of_coords(func, acc, a, b, Selected(acc.accessed, acc.of))

\* An accessor that hands its chain on as it is.
chained_same(acc, r) ==
    IF r.st # "ok" THEN r
    ELSE IF acc.chain > 1 THEN Units(r.v, IntValue(acc.chain), acc.of)
    ELSE r

\* Lines 51-54: an accessor of the array with one call less to go, or the
\* array.
chained(acc, r) ==
    IF r.st # "ok" THEN r
    ELSE IF acc.chain > 1 THEN Units(r.v, IntValue(acc.chain - 1), acc.of)
    ELSE r

\* to_method(func)(units, *args)
wrapper(func, acc, a, b) == chained(acc, wrapper_array(func, acc, a, b))

\* ------------------------------------------------- the caller of the accessor

\* The coordinates x = [1000, 2000] and y = [3000, 4000] a caller starts
\* with, and the arrays that carry them.
CoordX == {DataArray(1, "num", <<R(1000), R(2000)>>, ann) : ann \in {StrAnn("m"), NoAnn}}
CoordY == {DataArray(1, "num", <<R(3000), R(4000)>>, ann) : ann \in {StrAnn("m"), StrAnn("s")}}

CoordArrays ==
    {WithCoords(DataArray(1, "num", Ramp(MaxLen), ann), [x |-> cx, y |-> cy]) :
        ann \in {StrAnn("km"), NoAnn}, cx \in CoordX, cy \in CoordY}

\* The options a caller gives.
Chains == {IntValue(-1), IntValue(0), IntValue(1), IntValue(2), FloatValue(2)}
Ofs == {NoOf, Str("x"), List(<<"x", "y">>), Tuple(<<"x", "y">>), Set_(<<"x">>)}

\* The calls of accessor methods a caller makes: every function of quantity
\* and take once or twice, every operator method with 2 km and every
\* alias with 2 s on the right.
MethodCalls ==
    {<<"set", StrAnn("m"), TRUE>>, <<"set", StrAnn("m"), FALSE>>,
     <<"unset", Null, Null>>, <<"format", "generic", Null>>,
     <<"to", StrAnn("km"), Null>>,
     <<"like", DataArray(1, "num", Ramp(MaxLen), StrAnn("km")), Null>>,
     <<"decompose", Null, Null>>, <<"apply", "si", Null>>,
     <<"take", "mul", Number(R(2))>>}
    \cup {<<name, QuantityValue(0, <<R(2)>>, Km), Null>> : name \in Wrappers}
    \cup {<<name, QuantityValue(0, <<R(2)>>, Second), Null>> : name \in Dunders}

\* A call of the accessor: left is the array or the accessor it is made on,
\* attr the attribute named, a and b its arguments, n the chain the accessor
\* was created with.
Invoked(fn, left, attr, a, b, r, n) ==
    [fn |-> fn, left |-> left, operator |-> attr, right |-> a, flag |-> b,
     st |-> r.st, v |-> r.v, n |-> n]

InitAccessor ==
    /\ da \in CoordArrays
    /\ call = NoCall
    /\ chain = 0

\* da.units and units(da, chain=n, of=of)
Access ==
    \E n \in Chains, of \in Ofs :
        /\ call = NoCall
        /\ call' = Invoked("units", da, "", n, of, accessor(da, n, of), n)
        /\ chain' = 0
        /\ UNCHANGED da

\* accessor(chain=n, of=of) on the accessor the last call returned.
Update ==
    \E n \in Chains, of \in Ofs :
        /\ call.fn = "units" /\ call.st = "ok"
        /\ call' = Invoked("__call__", call.v, "", n, of, Units_call(call.v, n, of), n)
        /\ chain' = 0
        /\ UNCHANGED da

\* A method of the accessor the last call returned.
MethodCall ==
    \E m \in MethodCalls :
        /\ call.fn \in {"units", "__call__", "method"}
        /\ call.st = "ok" /\ call.v.k = "units"
        /\ call' = Invoked("method", call.v, m[1], m[2], m[3],
                           wrapper(wrapped(m[1]), call.v, m[2], m[3]), call.n)
        /\ chain' = chain + 1
        /\ UNCHANGED da

\* One of the 14 operator functions on the array itself.
FunctionCall ==
    \E name \in Wrappers, right \in {Number(R(2)), QuantityValue(0, <<R(2000)>>, Metre)} :
        /\ call = NoCall
        /\ call' = Invoked("function", Core(da), name, right, Null,
                           Result(operator_function(name, Core(da), right)), IntValue(0))
        /\ chain' = 0
        /\ UNCHANGED da

\* The caller drops what the last call returned or raised.
Drop ==
    /\ call # NoCall
    /\ call' = NoCall
    /\ chain' = 0
    /\ UNCHANGED da

NextAccessor == Access \/ Update \/ MethodCall \/ FunctionCall \/ Drop

SpecAccessor == InitAccessor /\ [][NextAccessor]_vars


\* ================================================================== claims

TakeCalled == call.fn = "take"

\* x carries a valid unit (a Quantity, or an array with a valid annotation).
HasUnits(x) == unitsof(x, FALSE).st = "ok" /\ unitsof(x, FALSE).has
UnitsOf(x) == unitsof(x, FALSE).u

\* x is a plain number or an array without a units annotation.
Unitless(x) == x.k = "num" \/ (x.k = "da" /\ x.ann.k = "none")

Km3 == DataArray(1, "num", Ramp(3), StrAnn("km"))
TwoThousandMetres == QuantityValue(0, <<R(2000)>>, Metre)

\* ---------------------------------------------------------------------- C1
\* C1: whenever left carries no units annotation, take fails with
\* UnitsNotFoundError itself (not UnitsConversionError), whatever the
\* operator and the right operand (also one with a malformed annotation),
\* and nothing after the extraction of left's units is entered: the units
\* of right are not read, no dry run and no operator on the data runs.
C1_LeftWithoutUnits ==
    (TakeCalled /\ call.left.ann.k = "none") =>
        /\ call.st = "UnitsNotFoundError"
        /\ call.log = <<"left_units">>
        /\ call.v = Null

C1_Witness ==
    /\ TakeCalled
    /\ call.left.ann.k = "none"
    /\ call.right.k = "da" /\ call.right.ann = StrAnn("m, s")
    /\ call.operator = "add"
    /\ call.st = "UnitsNotFoundError"

\* ---------------------------------------------------------------------- C2
\* The right operand with the dimensionless unit "1" put on it: a plain
\* number as a scalar quantity, an array with the annotation "1".
WithUnitOne(x) ==
    IF x.k = "num" THEN QuantityValue(0, x.data, One) ELSE [x EXCEPT !.ann = StrAnn("1")]

\* C2: for every operator and every right operand that carries no unit (a
\* plain number or an array without annotation), take gives the outcome
\* (failure kind, or units of the result) of the same call with the unit
\* "1" on right, and never fails with UnitsNotFoundError because of right.
C2_UnitlessRightIsDimensionless ==
    (TakeCalled /\ Unitless(call.right)) =>
        LET same == take(call.left, call.operator, WithUnitOne(call.right), FALSE)
        IN  /\ call.st = same.st
            /\ call.st = "ok" => call.v.ann = same.v.ann
            /\ HasUnits(call.left) => call.st # "UnitsNotFoundError"

\* ---------------------------------------------------------------------- C3
\* The right operand converted into units beforehand: convert(y, u2, u1)
\* carrying u1.
PreConverted(x, units) ==
    IF x.k = "qty"
    THEN QuantityValue(x.nd, Scaled(x.data, ConvFactor(x.u, units)), units)
    ELSE [x EXCEPT !.data = Scaled(x.data, ConvFactor(UnitsOf(x), units)),
                   !.ann = ObjAnn(units)]

\* C3: for every same-units operator and operands with mutually convertible
\* units u1 and u2, take(x in u1, op, y in u2) is take(x in u1, op,
\* convert(y, u2, u1) in u1): the same data, annotation and dtype, or the
\* same failure; and [1, 2, 3] km add 2000 m is [3, 4, 5] km.
C3_ConvertThenOperate ==
    (/\ TakeCalled
     /\ call.operator \in {"add", "sub", "floordiv", "mod", "lt", "le", "eq", "ne", "ge", "gt"}
     /\ HasUnits(call.left) /\ HasUnits(call.right)
     /\ Convertible(UnitsOf(call.right), UnitsOf(call.left))) =>
        LET pre == take(call.left, call.operator,
                        PreConverted(call.right, UnitsOf(call.left)), FALSE)
        IN  /\ call.st = pre.st
            /\ call.v = pre.v
            /\ (call.left = Km3 /\ call.operator = "add" /\ call.right = TwoThousandMetres)
                   => /\ call.st = "ok"
                      /\ call.v.data = <<R(3), R(4), R(5)>>
                      /\ UnitsOf(call.v) = Km

C3_Witness ==
    /\ TakeCalled
    /\ call.left = Km3 /\ call.operator = "add" /\ call.right = TwoThousandMetres
    /\ call.st = "ok"
    /\ "convert" \in {call.log[i] : i \in DOMAIN call.log}


\* ---------------------------------------------------------------------- C4
\* Both operands carry units and the units are mutually convertible.
ConvertibleOperands ==
    /\ HasUnits(call.left) /\ HasUnits(call.right)
    /\ Convertible(UnitsOf(call.right), UnitsOf(call.left))

\* The data of the operands can be combined element by element: right is
\* a scalar or has the shape of left.
Broadcastable ==
    call.right.nd = 0 \/ Len(call.right.data) = Len(call.left.data)

RightUnits == IF HasUnits(call.right) THEN UnitsOf(call.right) ELSE One

\* C5: whenever take succeeds on an any-units operator, the units of the
\* result are the unit algebra's: the product of the two units for mul and
\* for matmul, the quotient for truediv, left's unit raised to the scalar
\* exponent for pow (an array exponent is taken only by a dimensionless
\* left and gives a dimensionless result); a unit-less right counts as "1",
\* so mul and truediv by a plain number keep left's unit.  matmul of two
\* arrays of one shape that carry units succeeds.
C5_AnyUnitsAlgebra ==
    (TakeCalled /\ call.operator \in {"mul", "pow", "matmul", "truediv"}) =>
        /\ call.st = "ok" =>
              /\ HasUnits(call.v)
              /\ UnitsOf(call.v) =
                    CASE call.operator \in {"mul", "matmul"} ->
                            UnitMul(UnitsOf(call.left), RightUnits)
                      [] call.operator = "truediv" ->
                            UnitDiv(UnitsOf(call.left), RightUnits)
                      [] call.operator = "pow" ->
                            IF call.right.nd = 0
                            THEN UnitPow(UnitsOf(call.left), call.right.data[1][1])
                            ELSE One
              /\ (call.operator \in {"mul", "truediv"} /\ call.right.k = "num")
                    => UnitsOf(call.v) = UnitsOf(call.left)
              /\ (call.operator = "pow" /\ call.right.nd = 1)
                    => IsDimensionless(UnitsOf(call.left))
        /\ (/\ call.operator = "matmul"
            /\ HasUnits(call.left) /\ HasUnits(call.right)
            /\ call.right.k = "da" /\ Len(call.right.data) = Len(call.left.data))
              => call.st = "ok"

C5_Witness ==
    /\ TakeCalled
    /\ call.left = Km3 /\ call.operator = "matmul"
    /\ call.right = DataArray(1, "num", Ramp(3), StrAnn("m"))
    /\ call.st = "ok"
    /\ UnitsOf(call.v) = UnitMul(Km, Metre)
    /\ call.v.data = <<R(14)>>

\* ---------------------------------------------------------------------- C6
\* C6: for every comparison operator (lt, le, eq, ne, ge, gt) on operands
\* that carry mutually convertible units, the result of take is a boolean
\* array without units annotation, and take returns it whenever the data
\* can be compared element by element; on operands whose units are not
\* convertible (eq and ne included), and on a unit-less right against a
\* left whose unit is not dimensionless, take fails with
\* UnitsConversionError.
C6_Comparisons ==
    (TakeCalled /\ call.operator \in Comparisons /\ HasUnits(call.left)) =>
        /\ (HasUnits(call.right) /\ ConvertibleOperands) =>
              /\ Broadcastable => call.st = "ok"
              /\ call.st = "ok" => (call.v.ann = NoAnn /\ call.v.dtype = "bool")
              /\ call.st \in {"ok", "UnitsConversionError"}
        /\ (HasUnits(call.right) /\ ~ConvertibleOperands) =>
              call.st = "UnitsConversionError"
        /\ (Unitless(call.right) /\ ~IsDimensionless(UnitsOf(call.left))) =>
              call.st = "UnitsConversionError"

C6_Witness ==
    /\ TakeCalled
    /\ call.left = Km3 /\ call.operator = "eq" /\ call.right = TwoThousandMetres
    /\ call.st = "ok"
    /\ call.v.ann = NoAnn
    /\ call.v.data = <<R(0), R(1), R(0)>>

\* ---------------------------------------------------------------------- C7
Logged(step) == step \in {call.log[i] : i \in DOMAIN call.log}

\* C7: every operator is in exactly one category, mul, pow, matmul and
\* truediv in any-units and add, sub, floordiv, mod and the six comparisons
\* in same-units; take converts a unit-bearing right operand before the
\* operator runs exactly for the same-units operators, mod included:
\* [1, 2, 3] km mod 2000 m is [1, 0, 1] km.
C7_Categories ==
    TakeCalled =>
        /\ call.operator \in AnyUnitsOperator <=> call.operator \notin SameUnitsOperator
        /\ call.operator \in AnyUnitsOperator
              <=> call.operator \in {"mul", "pow", "matmul", "truediv"}
        /\ call.operator \in SameUnitsOperator
              <=> call.operator \in {"add", "sub", "floordiv", "mod",
                                     "lt", "le", "eq", "ne", "ge", "gt"}
        /\ (Logged("operate") /\ call.right.k \in {"qty", "da"})
              => (Logged("convert") <=> call.operator \in
                      {"add", "sub", "floordiv", "mod", "lt", "le", "eq", "ne", "ge", "gt"})
        /\ (call.left = Km3 /\ call.operator = "mod" /\ call.right = TwoThousandMetres)
              => /\ call.st = "ok"
                 /\ call.v.data = <<R(1), R(0), R(1)>>
                 /\ UnitsOf(call.v) = Km

C7_Witness ==
    /\ TakeCalled
    /\ call.left = Km3 /\ call.operator = "mod" /\ call.right = TwoThousandMetres
    /\ Logged("convert")
    /\ call.v.data = <<R(1), R(0), R(1)>>


\* ---------------------------------------------------------------------- C8
\* The dry run of the call is reached and fails: the units of both operands
\* are read, the argument is built, and the Quantity method on the
\* placeholder raises.
DryRunFails ==
    /\ HasUnits(call.left)
    /\ unitsof(call.right, FALSE).st = "ok"
    /\ Args(call.operator, call.right, unitsof(call.right, FALSE)).st = "ok"
    /\ apply_any(TESTER, UnitsOf(call.left), Method(call.operator),
                 Args(call.operator, call.right, unitsof(call.right, FALSE)).v).st # "ok"

\* C8: whenever the dry run of take (the quantities of the placeholders and
\* the operator on them) fails, with whatever exception of the unit-algebra
\* library, take fails with UnitsConversionError and goes no further; so do
\* add, sub, floordiv, mod, lt, le, ge and gt between a left in km and the
\* plain number 2.
C8_DryRunFailure ==
    TakeCalled =>
        /\ DryRunFails =>
              /\ call.st = "UnitsConversionError"
              /\ call.log = <<"left_units", "right_units", "args", "test">>
              /\ call.v = Null
        /\ (/\ call.left.ann = StrAnn("km")
            /\ call.right = Number(R(2))
            /\ call.operator \in {"add", "sub", "floordiv", "mod", "lt", "le", "ge", "gt"})
              => call.st = "UnitsConversionError"

C8_Witness ==
    /\ TakeCalled
    /\ call.left = Km3 /\ call.operator = "mod" /\ call.right = Number(R(2))
    /\ DryRunFails
    /\ call.st = "UnitsConversionError"

\* ---------------------------------------------------------------------- C9
\* The operator on the data is reached and fails: the dry run and the
\* conversion of right succeed, and the operator on left and the converted
\* right raises.
OperatorFails ==
    /\ HasUnits(call.left)
    /\ unitsof(call.right, FALSE).st = "ok"
    /\ Args(call.operator, call.right, unitsof(call.right, FALSE)).st = "ok"
    /\ apply_any(TESTER, UnitsOf(call.left), Method(call.operator),
                 Args(call.operator, call.right, unitsof(call.right, FALSE)).v).st = "ok"
    /\ Convert(call.operator, call.right, UnitsOf(call.left)).st = "ok"
    /\ Operate(call.operator, call.left,
               Convert(call.operator, call.right, UnitsOf(call.left)).v, FALSE).st # "ok"

\* C9: whenever the operator on the full data fails after a dry run that
\* succeeded, take fails with UnitsConversionError and returns nothing; so
\* does matmul of an array in km with the plain number 2 and with the scalar
\* quantity 2000 m, whose dry run gives the units km and km m.
C9_OperatorFailure ==
    TakeCalled =>
        /\ OperatorFails =>
              /\ call.st = "UnitsConversionError"
              /\ Logged("test") /\ Logged("operate") /\ ~Logged("stamp")
              /\ call.v = Null
        /\ (/\ call.left = Km3 /\ call.operator = "matmul"
            /\ call.right \in {Number(R(2)), TwoThousandMetres})
              => /\ call.st = "UnitsConversionError"
                 /\ Logged("operate")
                 /\ call.test = SomeUnits(UnitMul(Km, RightUnits))

C9_Witness ==
    /\ TakeCalled
    /\ call.left = Km3 /\ call.operator = "matmul" /\ call.right = TwoThousandMetres
    /\ OperatorFails
    /\ call.st = "UnitsConversionError"
    /\ call.test = SomeUnits(UnitMul(Km, Metre))

\* --------------------------------------------------------------------- C10
\* right carries a unit that is not dimensionless.
UnitBearingExponent ==
    /\ call.operator = "pow"
    /\ HasUnits(call.right)
    /\ ~IsDimensionless(UnitsOf(call.right))

\* C10 as stated: take(left, "pow", right) fails with UnitsConversionError
\* whenever right (a scalar quantity or an annotated array) carries a unit
\* that is not dimensionless.
C10_PowUnitExponent ==
    (TakeCalled /\ UnitBearingExponent) => call.st = "UnitsConversionError"

\* C10 amended: take(left, "pow", right) returns no result whenever right
\* carries a unit that is not dimensionless, and the failure is
\* UnitsConversionError whenever left carries valid units (without units on
\* left it is UnitsNotFoundError, with a malformed annotation on left
\* UnitsNotValidError).
C10_PowUnitExponentAmended ==
    (TakeCalled /\ UnitBearingExponent) =>
        /\ call.st # "ok" /\ call.v = Null
        /\ HasUnits(call.left) => call.st = "UnitsConversionError"
        /\ call.left.ann.k = "none" => call.st = "UnitsNotFoundError"
        /\ (call.left.ann.k = "str" /\ ~HasUnits(call.left))
              => call.st = "UnitsNotValidError"

C10_Witness ==
    /\ TakeCalled
    /\ UnitBearingExponent
    /\ call.left.ann = StrAnn("1")
    /\ call.right.k = "da" /\ call.right.ann = StrAnn("m")
    /\ call.st = "UnitsConversionError"

\* --------------------------------------------------------------------- C11
\* The value of the dry run of the call, recomputed from its operands.
DryRun ==
    apply_any(TESTER, UnitsOf(call.left), Method(call.operator),
              Args(call.operator, call.right, unitsof(call.right, FALSE)).v)

\* C11: whenever take returns, with xarray keeping left's attributes on the
\* result of the operator or not, the units annotation of the result is the
\* outcome of the dry run: the unit of the dry-run value when it carries
\* one (replacing what the operator left there), no annotation when it
\* carries none; take never fails with UnitsExistError.
C11_StampIsDryRun ==
    TakeCalled =>
        \A keep \in BOOLEAN :
            LET out == take(call.left, call.operator, call.right, keep)
            IN  /\ out.st # "UnitsExistError"
                /\ out.st = call.st /\ out.v = call.v
                /\ out.st = "ok" =>
                      /\ out.test = unitsof(DryRun.v, FALSE)
                      /\ out.test.has => out.v.ann = ObjAnn(out.test.u)
                      /\ ~out.test.has => out.v.ann = NoAnn

\* [1,2,3] km mul 2 km with the attributes of left kept by the operator:
\* the annotation "km" the operator left is replaced by km2.
C11_Witness ==
    /\ TakeCalled
    /\ call.left = Km3 /\ call.operator = "mul"
    /\ call.right = QuantityValue(0, <<R(2)>>, Km)
    /\ Operate("mul", call.left, call.right, TRUE).v.ann = StrAnn("km")
    /\ call.st = "ok"
    /\ call.v.ann = ObjAnn(UnitMul(Km, Km))

\* --------------------------------------------------------------------- C12
\* The object carries no units: an array without annotation, a plain number
\* or a bare unit.
WithoutUnits(x) == x.k \in {"num", "unit"} \/ (x.k = "da" /\ x.ann.k = "none")

\* The texts of one unit each.
UnitNames == {"km", "m", "s", "1", ""} \cup {p[1] : p \in Composite}

\* The array carries an annotation that is not the text of one unit: an
\* unknown text, several units ("m, s") or a text in another format.
Malformed(x) == x.k = "da" /\ x.ann.k = "str" /\ x.ann.s \notin UnitNames

\* The unit a well-formed annotation stands for.
Meant(ann) ==
    CASE ann.k = "obj" -> ann.u
      [] ann.s = "km" -> Km
      [] ann.s = "m" -> Metre
      [] ann.s = "s" -> Second
      [] ann.s \in {"1", ""} -> One
      [] OTHER -> (CHOOSE p \in Composite : p[1] = ann.s)[2]

C13_UnitsOfFormat ==
    (call.fn = "units_of" /\ call.operator # NoFormat) =>
        /\ (~WithoutUnits(call.left) /\ ~Malformed(call.left)) =>
              /\ call.operator = "invalid" =>
                    call.units = UnitsErr("UnitsConversionError")
              /\ call.operator = "generic" =>
                    /\ call.units.st = "ok" /\ call.units.has
                    /\ Unit(call.units.text).st = "ok"
                    /\ Unit(call.units.text).u = unitsof(call.left, FALSE).u
        /\ Malformed(call.left) => call.units = UnitsErr("UnitsNotValidError")
        /\ WithoutUnits(call.left) =>
              call.units = IF call.flag THEN UnitsErr("UnitsNotFoundError") ELSE NoUnits

C13_Witness ==
    /\ call.fn = "units_of" /\ call.operator = "invalid"
    /\ call.left.k = "da" /\ call.left.ann = StrAnn("m")
    /\ ~call.flag
    /\ call.units = UnitsErr("UnitsConversionError")

\* --------------------------------------------------------------------- C14
\* The units given to set are valid: a unit object or the text of one unit.
ValidUnits(units) == units.k = "obj" \/ units.s \in UnitNames

\* C14 as stated: set fails with UnitsExistError exactly when overwrite is
\* false and the array carries a valid annotation; in every other case with
\* valid units it returns the array with the given units as annotation.
C14_SetExistError ==
    (call.fn = "set" /\ ValidUnits(call.right)) =>
        /\ call.st = "UnitsExistError" <=> (~call.flag /\ HasUnits(call.left))
        /\ call.st # "UnitsExistError" =>
              call.st = "ok" /\ call.v.ann = call.right

\* C14 amended: set fails with UnitsExistError exactly when overwrite is
\* false and the array carries a valid annotation, and with
\* UnitsNotValidError exactly when overwrite is false and the annotation it
\* carries is malformed; in every other case it returns the array with the
\* given units as annotation and everything else as it was.
C14_SetExistErrorAmended ==
    (call.fn = "set" /\ ValidUnits(call.right)) =>
        /\ call.st = "UnitsExistError" <=> (~call.flag /\ HasUnits(call.left))
        /\ call.st = "UnitsNotValidError" <=> (~call.flag /\ Malformed(call.left))
        /\ call.st \notin {"UnitsExistError", "UnitsNotValidError"} =>
              /\ call.st = "ok"
              /\ call.v = [call.left EXCEPT !.ann = call.right]

\* set([1,2,3] km, "m") fails with UnitsExistError.
C14_Witness ==
    /\ call.fn = "set"
    /\ call.left = Km3 /\ call.right = StrAnn("m")
    /\ ~call.flag /\ call.st = "UnitsExistError"

\* --------------------------------------------------------------------- C15
\* The operations that return an array.
Operations == {"set", "unset", "format", "to", "like", "decompose", "apply", "take"}

\* C15: after any sequence of set, unset, format, to, like, decompose, apply
\* and take, the annotation of every array returned is absent or a text
\* that parses into one unit, and set fails with UnitsNotValidError when the
\* units it is given are not valid.
C15_AnnotationIsUnitText ==
    /\ (call.fn \in Operations /\ call.st = "ok") =>
          \/ call.v.ann.k = "none"
          \/ call.v.ann.k = "str" /\ call.v.ann.s \in UnitNames
    /\ (call.fn = "set" /\ ~ValidUnits(call.right)) =>
          call.st = "UnitsNotValidError"

\* --------------------------------------------------------------------- C16
\* The frame the call ended with, recomputed from its arguments.
LastFrame ==
    CASE call.fn = "set" -> set_in(Frame(call.left), call.right, call.flag).f
      [] call.fn = "unset" -> unset_in(Frame(call.left))
      [] call.fn = "format" -> format_in(Frame(call.left), call.operator).f
      [] call.fn = "to" -> to_in(Frame(call.left), call.right).f
      [] call.fn = "like" -> like_in(Frame(call.left), call.right).f
      [] call.fn = "decompose" -> decompose_in(Frame(call.left)).f
      [] call.fn = "apply" -> apply_in(Frame(call.left), call.operator, call.right).f

C17_UnsetTotal ==
    call.fn = "unset" =>
        /\ call.st = "ok"
        /\ call.v = [call.left EXCEPT !.ann = NoAnn]
        /\ call.v.ann = NoAnn
        /\ unset(call.v) = call.v

C17_Witness ==
    /\ call.fn = "unset"
    /\ call.left.ann = StrAnn("m, s") /\ call.left.others = "long_name"
    /\ call.st = "ok"
    /\ call.v.ann = NoAnn /\ call.v.others = "long_name"

\* --------------------------------------------------------------------- C18
\* C18: for every array x without units and every valid unit u, set(x, u)
\* returns and unset of what it returns is x, with the attributes and the
\* data of x.
C18_UnsetAfterSet ==
    (call.fn = "set" /\ call.left.ann.k = "none" /\ ValidUnits(call.right)) =>
        /\ call.st = "ok"
        /\ call.v.ann = call.right
        /\ unset(call.v) = call.left

C18_Witness ==
    /\ call.fn = "set"
    /\ call.left.ann.k = "none" /\ call.left.others = "long_name"
    /\ call.right = StrAnn("km")
    /\ call.st = "ok"
    /\ unset(call.v) = call.left

\* --------------------------------------------------------------------- C19
\* The units to(x, u2) is asked for, u2.
Target == parsed(call.right).u

\* C19: for every array x with units u1 and every units u2 convertible with
\* u1, to(x, u2) returns the data of x multiplied by the factor from u1 to
\* u2 with the units u2, and to of that back to u1 returns the data of x
\* with the units u1 (magnitudes are exact, so every conversion is
\* lossless).
C19_ToRoundTrip ==
    (/\ call.fn = "to"
     /\ HasUnits(call.left) /\ ValidUnits(call.right)
     /\ Convertible(UnitsOf(call.left), Target)) =>
        /\ call.st = "ok"
        /\ call.v.data = Scaled(call.left.data, ConvFactor(UnitsOf(call.left), Target))
        /\ HasUnits(call.v) /\ UnitsOf(call.v) = Target
        /\ call.v.others = call.left.others
        /\ to(call.v, call.left.ann).st = "ok"
        /\ to(call.v, call.left.ann).v.data = call.left.data
        /\ UnitsOf(to(call.v, call.left.ann).v) = UnitsOf(call.left)

\* [1,2,3] km to m gives [1000,2000,3000] m.
C19_Witness ==
    /\ call.fn = "to"
    /\ call.left = Km3 /\ call.right = StrAnn("m")
    /\ call.st = "ok"
    /\ call.v.data = <<R(1000), R(2000), R(3000)>>
    /\ UnitsOf(call.v) = Metre
    /\ to(call.v, StrAnn("km")).v.data = Ramp(3)

\* --------------------------------------------------------------------- C20
\* The dry run of the apply called, and the method on the data themselves.
ApplyTest ==
    apply_any(TESTER, UnitsOf(call.left), call.operator, call.right)
ApplyData ==
    apply_any(call.left, UnitsOf(call.left), call.operator, call.right)

\* C20: apply fails with UnitsNotFoundError itself when the array has no
\* units and with UnitsNotValidError itself when its annotation is
\* malformed; with units on the array, every failure of the dry run (a
\* method Quantity does not have, units that cannot be converted to) and
\* every failure of the method on the data is UnitsConversionError.
C20_ApplyFailures ==
    call.fn = "apply" =>
        /\ call.left.ann.k = "none" => call.st = "UnitsNotFoundError"
        /\ Malformed(call.left) => call.st = "UnitsNotValidError"
        /\ (HasUnits(call.left) /\ ApplyTest.st # "ok") =>
              call.st = "UnitsConversionError"
        /\ (HasUnits(call.left) /\ ApplyTest.st = "ok" /\ ApplyData.st # "ok") =>
              call.st = "UnitsConversionError"

\* apply([1,2] m, "__add__", [1,2,3] m): the dry run on the placeholder
\* passes and the method on the data fails.
C20_Witness ==
    /\ call.fn = "apply" /\ call.operator = "add"
    /\ HasUnits(call.left)
    /\ ApplyTest.st = "ok" /\ ApplyData.st # "ok"
    /\ call.st = "UnitsConversionError"

\* --------------------------------------------------------------------- C21
Applied == call.fn \in {"apply", "to", "like", "decompose"}

\* The method and the argument apply is called with by the function called.
AppliedMethod ==
    CASE call.fn = "apply" -> call.operator
      [] call.fn = "decompose" -> "decompose"
      [] OTHER -> "to"
AppliedArg ==
    IF call.fn = "like" THEN ObjAnn(UnitsOf(call.right)) ELSE call.right

\* The value of the dry run of the function called.
AppliedTest == apply_any(TESTER, UnitsOf(call.left), AppliedMethod, AppliedArg)

\* C21: every array returned by apply, to, like and decompose carries the
\* units of the dry-run value as annotation, whatever annotation the input
\* carried; no array is returned without annotation, and when the method
\* gives a value without units (value) apply returns nothing; apply with
\* "si" and decompose of [1,2,3] km both return [1000,2000,3000] m.
C21_ApplyStampsDryRun ==
    Applied =>
        /\ call.st = "ok" =>
              /\ AppliedTest.st = "ok"
              /\ unitsof(AppliedTest.v, TRUE).st = "ok"
              /\ call.v.ann = ObjAnn(unitsof(AppliedTest.v, TRUE).u)
              /\ call.v.ann.k # "none"
        /\ (call.fn = "apply" /\ call.operator = "value" /\ HasUnits(call.left)) =>
              call.st = "UnitsNotFoundError"
        /\ (/\ call.left = Km3
            /\ \/ call.fn = "decompose"
               \/ call.fn = "apply" /\ call.operator = "si") =>
              /\ call.st = "ok"
              /\ call.v.data = <<R(1000), R(2000), R(3000)>>
              /\ UnitsOf(call.v) = Metre

C21_Witness ==
    /\ call.fn = "apply" /\ call.operator = "si"
    /\ call.left = Km3
    /\ call.st = "ok"
    /\ call.v.ann = ObjAnn(Metre)
    /\ call.v.data = <<R(1000), R(2000), R(3000)>>

\* --------------------------------------------------------------------- C22
\* What the call ended with: its status and the value returned.
CallOutcome == [st |-> call.st, v |-> call.v]

\* C22: like(da, other) ends as to(da, units of other) ends, with the same
\* array or the same failure, for every other with valid units, and fails
\* with UnitsNotFoundError itself when other carries no units; to(da, units)
\* ends as apply(da, "to", units) and decompose(da) as
\* apply(da, "decompose").
C22_LikeIsTo ==
    /\ call.fn = "like" =>
          /\ HasUnits(call.right) =>
                CallOutcome = to(call.left, ObjAnn(UnitsOf(call.right)))
          /\ call.right.ann.k = "none" => call.st = "UnitsNotFoundError"
    /\ call.fn = "to" => CallOutcome = apply(call.left, "to", call.right)
    /\ call.fn = "decompose" => CallOutcome = apply(call.left, "decompose", Null)

\* like([1,2,3] km, an array in m) is [1000,2000,3000] m.
C22_Witness ==
    /\ call.fn = "like"
    /\ call.left = Km3 /\ call.right.ann = StrAnn("m")
    /\ call.st = "ok"
    /\ call.v.data = <<R(1000), R(2000), R(3000)>>
    /\ CallOutcome = to(call.left, ObjAnn(Metre))

\* --------------------------------------------------------------------- C23
\* Every entry of the step later in the log of the call comes after an
\* entry of the step earlier.
Before(earlier, later) ==
    \A j \in DOMAIN call.log :
        call.log[j] = later => \E i \in 1..(j - 1) : call.log[i] = earlier

\* C23: in every take and every apply the dry run on the placeholder is
\* over before the right operand is converted and before the operator or
\* map_blocks runs on the data; when the dry run fails none of them is
\* entered; the units are stamped only on a result that exists; and when
\* the operator or map_blocks fails on the data nothing is returned,
\* nothing is stamped and the operands are as they were.
C23_DryRunFirst ==
    /\ call.fn = "take" =>
          /\ Before("test", "convert")
          /\ Before("test", "operate")
          /\ Before("operate", "stamp")
          /\ DryRunFails =>
                /\ ~Logged("convert") /\ ~Logged("operate") /\ ~Logged("stamp")
                /\ call.st = "UnitsConversionError"
                /\ call.v = Null
          /\ Logged("stamp") =>
                Operate(call.operator, call.left,
                        Convert(call.operator, call.right, UnitsOf(call.left)).v,
                        FALSE).st = "ok"
          /\ OperatorFails =>
                /\ ~Logged("stamp")
                /\ call.st = "UnitsConversionError"
                /\ call.v = Null
                /\ call.after = call.left /\ call.right_after = call.right
    /\ call.fn = "apply" =>
          /\ Before("test", "map_blocks")
          /\ Before("map_blocks", "stamp")
          /\ (HasUnits(call.left) /\ ApplyTest.st # "ok") =>
                /\ ~Logged("map_blocks") /\ ~Logged("stamp")
                /\ call.st = "UnitsConversionError"
                /\ call.v = Null
          /\ Logged("stamp") => ApplyData.st = "ok"
          /\ (HasUnits(call.left) /\ ApplyTest.st = "ok" /\ ApplyData.st # "ok") =>
                /\ Logged("map_blocks") /\ ~Logged("stamp")
                /\ call.st = "UnitsConversionError"
                /\ call.v = Null
                /\ call.after = call.left

\* A take whose dry run passes and whose operator fails on the data: the
\* operator is entered after the dry run and nothing is stamped.
C23_Witness ==
    /\ call.fn = "take"
    /\ OperatorFails
    /\ Logged("test") /\ Logged("operate") /\ ~Logged("stamp")
    /\ call.v = Null

\* --------------------------------------------------------------------- C24
\* The four kinds of failure of the package.
UnitsErrors ==
    {"UnitsNotFoundError", "UnitsNotValidError", "UnitsExistError",
     "UnitsConversionError"}

\* C24: every take and every apply, whatever the operands and the operator
\* or method, returns or fails with one of UnitsNotFoundError,
\* UnitsNotValidError, UnitsExistError and UnitsConversionError, also when
\* the argument of the dry run cannot be built and when the right operand
\* cannot be converted.
C24_OnlyUnitsErrors ==
    call.fn \in {"take", "apply"} => call.st \in {"ok"} \cup UnitsErrors

\* --------------------------------------------------------------------- C25
\* The operator an operator method or its alias is named after.
OwnName(attr) ==
    CHOOSE name \in Wrappers : attr \in {name, "__" \o name \o "__"}

\* The array a method call ended with, returned as it is or in an accessor.
ResultArray ==
    IF call.st = "ok" /\ call.v.k = "units" THEN call.v.accessed ELSE call.v

\* C25: each of the 14 operator functions ends, for every left and right,
\* as take(left, name, right) with its own name ends (the same array or the
\* same failure), and every operator method of the accessor and its
\* double-underscore alias wrap that function.
C25_NamedOperators ==
    /\ \A name \in Wrappers :
          wrapped(name) = name /\ wrapped("__" \o name \o "__") = name
    /\ call.fn = "function" =>
          /\ call.operator \in Wrappers
          /\ [st |-> call.st, v |-> call.v]
                = Result(take(call.left, call.operator, call.right, FALSE))
    /\ (/\ call.fn = "method"
        /\ call.operator \in Wrappers \cup Dunders
        /\ call.left.of.k = "none") =>
          [st |-> call.st, v |-> ResultArray]
            = kept(Result(take(Core(call.left.accessed), OwnName(call.operator),
                               call.right, FALSE)),
                   call.left.accessed.coords)

\* gt([1,2,3] km, 2000 m) is [False, False, True].
C25_Witness ==
    /\ call.fn = "function" /\ call.operator = "gt"
    /\ call.left.ann = StrAnn("km") /\ call.right = TwoThousandMetres
    /\ call.st = "ok"
    /\ call.v.data = <<RBool(FALSE), RBool(FALSE), RBool(TRUE)>>

\* --------------------------------------------------------------------- C26
PositiveInt(n) == n.k = "int" /\ n.i > 0

\* C26: a method call that succeeds on an accessor with chain n returns an
\* accessor of the result with chain n - 1 and the same of when n > 1 and
\* the array when n = 1, so that the n-th call of a chain, and no earlier
\* one, returns an array; the chain of every accessor is a positive
\* integer; units(da, chain=n) and accessor(chain=n) fail with TypeError
\* when n is not a positive integer.
C26_Chain ==
    /\ (call.fn = "method" /\ call.st = "ok") =>
          /\ call.left.chain > 1 =>
                /\ call.v.k = "units"
                /\ call.v.chain = call.left.chain - 1
                /\ call.v.of = call.left.of
          /\ call.left.chain = 1 => call.v.k = "da"
          /\ call.v.k = "da" <=> chain = call.n.i
          /\ call.v.k = "units" => call.v.chain = call.n.i - chain
    /\ (call.fn \in {"units", "__call__", "method"} /\ call.st = "ok"
        /\ call.v.k = "units") =>
          call.v.chain \in Nat \ {0}
    /\ (call.fn \in {"units", "__call__"} /\ ~PositiveInt(call.right)) =>
          call.st = "TypeError"
    /\ (call.fn \in {"units", "__call__"} /\ PositiveInt(call.right)
        /\ call.flag.k # "set") =>
          /\ call.st = "ok"
          /\ call.v.chain = call.right.i

\* km.units(chain=2) / s / s: the second call returns the array, in km / s2.
C26_Witness ==
    /\ call.fn = "method" /\ call.operator = "__truediv__"
    /\ call.n = IntValue(2) /\ chain = 2
    /\ call.st = "ok" /\ call.v.k = "da"
    /\ UnitsOf(call.v) = UnitDiv(UnitDiv(Km, Second), Second)
    /\ call.v.data = [i \in 1..MaxLen |-> RDiv(R(i), R(4))]

\* --------------------------------------------------------------------- C27
\* The coordinates of names: one name, or the names of a sequence.
Named(of) == {of.names[i] : i \in DOMAIN of.names}

\* The function of the method called, on the coordinate of the array
\* accessed.
OnCoord(name) ==
    Function(wrapped(call.operator), call.left.accessed.coords[name],
             call.right, call.flag)

\* C27: a method of an accessor whose of names one coordinate or a sequence
\* of coordinates applies the function to every coordinate named and to
\* nothing else: where the function returns for each of them the method
\* returns the array with these coordinates replaced by what the function
\* returned, and with the data, the units annotation and the other
\* coordinates it had; with of None the function is applied to the array.
C27_OfCoordinates ==
    call.fn = "method" =>
        /\ call.left.of.k = "none" =>
              [st |-> call.st, v |-> ResultArray]
                = on_accessed(wrapped(call.operator), call.left.accessed,
                              call.right, call.flag)
        /\ (/\ call.left.of.k \in {"str", "list", "tuple"}
            /\ \A name \in Named(call.left.of) :
                  /\ name \in DOMAIN call.left.accessed.coords
                  /\ OnCoord(name).st = "ok") =>
              /\ call.st = "ok"
              /\ Core(ResultArray) = Core(call.left.accessed)
              /\ \A name \in DOMAIN call.left.accessed.coords :
                    ResultArray.coords[name] =
                        IF name \in Named(call.left.of)
                        THEN OnCoord(name).v
                        ELSE call.left.accessed.coords[name]

=============================================================================
